---- MODULE Spec2Model ----
(***************************************************************************)
(* Model of the optimistic-concurrency edit protocol of best-practices.py. *)
(*                                                                         *)
(* Every user runs the Streamlit script in a session of their own          *)
(* (st.session_state); the Supabase table is the only shared state.  One   *)
(* script run is split at its store round trips, so that other users'      *)
(* store operations interleave exactly where they can in the program.      *)
(* The load_data read that opens a run decides which widgets exist; it is  *)
(* taken together with the local code that follows it up to the next       *)
(* store call.                                                             *)
(*                                                                         *)
(* Texts are sequences of one-character strings, so that str.strip() is    *)
(* computed rather than assumed.  The dbg_* diagnostics (lines 381-384,    *)
(* 422-425) never influence control flow and are left out.  All modelled   *)
(* users are logged in and belong to the same class.                       *)
(***************************************************************************)
EXTENDS Naturals, Sequences, FiniteSets

\* ---------------------------------------------------------------- bounds
\* Row ids the store hands out (ids are serial and never reused).
MaxId == 2
\* A save that would write is started only while fewer Saved results than
\* this have been recorded for the row.
MaxEdits == 2

\* ------------------------------------------------------------- constants
\* Every session of the model; Users are the ones acting in Spec and
\* SpecSwitch, all of them act in SpecRace.
AllUsers == {"ana", "ben", "cam"}
Users == {"ana", "ben"}
CONCEPTS == {"Risk-Free Rate", "Cost of Debt"}
\* The concept the users of Spec work on.
SpecConcepts == {"Risk-Free Rate"}
\* Values now_str() may return.
NowValues == {"10:00"}
\* What a user may type into a text area: empty, blank, clean and padded.
Texts == { <<>>, <<" ">>, <<"a">>, <<"b", " ">> }
RaceTexts == { <<" ">>, <<"a">>, <<"b", " ">>, <<" ", "c">>, <<"d">> }

None == "None"
Ids == 1..MaxId
\* Python's None for a row id, a row and a text.
NoId == 0
NoRow == [ category       |-> None,
           practice       |-> <<>>,
           added_by       |-> None,
           added_on       |-> "",
           last_edited_by |-> "",
           last_edited_on |-> "",
           edit_count     |-> 0 ]
NoText == << None >>

\* --------------------------------------------------------- pure functions
RECURSIVE LStrip(_)
LStrip(s) == IF s = <<>> THEN s
             ELSE IF Head(s) = " " THEN LStrip(Tail(s)) ELSE s

RECURSIVE RStrip(_)
RStrip(s) == IF s = <<>> THEN s
             ELSE IF s[Len(s)] = " " THEN RStrip(SubSeq(s, 1, Len(s) - 1)) ELSE s

\* Variant: str.lstrip(), trailing blanks stay.
Strip_Leading(s) == LStrip(s)

\* str.strip()
Strip(s) == RStrip(LStrip(s))

\* ------------------------------------------------------------------ state
VARIABLES
    rows,            \* the table: id -> row, or NoRow
    next_id,         \* next id the store assigns on insert
    pc,              \* per user: position inside the current script run
    editing_id,      \* st.session_state.editing_id
    orig_text,       \* st.session_state["orig_text"] (key absent: NoText)
    orig_for_id,     \* st.session_state["orig_for_id"] (key absent: NoId)
    adding_concept,  \* st.session_state.adding_concept
    confirm_delete,  \* st.session_state.confirm_delete
    submitting,      \* st.session_state.submitting
    row,             \* the df row the run is handling (load_data's copy)
    row_id_int,      \* local row_id_int of the run
    live,            \* local live (fetch_row before the conditional update)
    new_content,     \* text submitted with the form being handled
    outcome,         \* what the last run reported to the user
    editor,          \* local editor of the conflict warning (line 433)
    current,         \* local current of the conflict warning (line 434)
    saves,           \* history: Saved results on the row stored under an id
    calls,           \* history: store functions called by the user's runs
                     \* since the last click (load_data left out)
    conflict_on,     \* history: row of the user's latest Conflict, while the
                     \* user has since only opened a session on it and saved
    snap_ver         \* history: saves[id] when the snapshot held was read

vars == << rows, next_id, pc, editing_id, orig_text, orig_for_id,
           adding_concept, confirm_delete, submitting, row, row_id_int,
           live, new_content, outcome, editor, current, saves, conflict_on,
           snap_ver, calls >>

session == << editing_id, orig_text, orig_for_id, snap_ver >>
locals == << row, row_id_int, live, new_content >>
store == << rows, next_id >>
shown == << outcome, editor, current >>

\* A click starts a run that has called no store function yet; f is called.
NoCalls(u) == calls' = [calls EXCEPT ![u] = << >>]
Call(u, f) == calls' = [calls EXCEPT ![u] = Append(@, f)]

\* A click that starts something else ends the follow-up of a Conflict.
ForgetConflict(u) == conflict_on' = [conflict_on EXCEPT ![u] = NoId]

\* A run that shows no conflict warning has no editor and no current.
ClearWarning(u) ==
    /\ editor' = [editor EXCEPT ![u] = None]
    /\ current' = [current EXCEPT ![u] = NoText]

\* ------------------------------------------------------------ store reads
\* fetch_row: the row, or NoRow.
fetch_row(id) == rows[id]

\* load_data + concept_map: the row shown for a concept is the one with the
\* smallest id (order("id"), rows.iloc[0]).
ConceptIds(c) == { i \in Ids : rows[i] # NoRow /\ rows[i].category = c }

Displayed(id) == /\ id \in Ids
                 /\ rows[id] # NoRow
                 /\ \A j \in ConceptIds(rows[id].category) : id <= j

is_author(u, id) == rows[id].added_by = u

\* ------------------------------------------------------------ store writes
\* Variant: update_row, the filter on practice left out.
CondMatches_IdOnly(id, expected_practice) == rows[id] # NoRow

\* conditional_update_row: .update(updates).eq("id", id).eq("practice", e)
CondMatches(id, expected_practice) ==
    /\ rows[id] # NoRow
    /\ rows[id].practice = expected_practice

\* Variant: only the text of the updates is written.
conditional_update_row_TextOnly(id, updates) ==
    [rows EXCEPT ![id] = [ @ EXCEPT !.practice = updates.practice ]]

\* Variant: the saver is also written to added_by.
conditional_update_row_TakesOwnership(id, updates) ==
    [rows EXCEPT ![id] = [ @ EXCEPT !.practice       = updates.practice,
                                    !.added_by       = updates.last_edited_by,
                                    !.last_edited_by = updates.last_edited_by,
                                    !.last_edited_on = updates.last_edited_on,
                                    !.edit_count     = updates.edit_count ]]

\* Variant: edit_count is left out of the fields written.
conditional_update_row_NoCount(id, updates) ==
    [rows EXCEPT ![id] = [ @ EXCEPT !.practice       = updates.practice,
                                    !.last_edited_by = updates.last_edited_by,
                                    !.last_edited_on = updates.last_edited_on ]]

\* The row matched takes the four fields of updates (lines 71-75).
conditional_update_row(id, updates) ==
    [rows EXCEPT ![id] = [ @ EXCEPT !.practice       = updates.practice,
                                    !.last_edited_by = updates.last_edited_by,
                                    !.last_edited_on = updates.last_edited_on,
                                    !.edit_count     = updates.edit_count ]]

delete_row(id) == [rows EXCEPT ![id] = NoRow]

Init ==
    /\ rows = [i \in Ids |-> NoRow]
    /\ next_id = 1
    /\ pc = [u \in AllUsers |-> "idle"]
    /\ editing_id = [u \in AllUsers |-> NoId]
    /\ orig_text = [u \in AllUsers |-> NoText]
    /\ orig_for_id = [u \in AllUsers |-> NoId]
    /\ adding_concept = [u \in AllUsers |-> None]
    /\ confirm_delete = [u \in AllUsers |-> NoId]
    /\ submitting = [u \in AllUsers |-> FALSE]
    /\ row = [u \in AllUsers |-> NoRow]
    /\ row_id_int = [u \in AllUsers |-> NoId]
    /\ live = [u \in AllUsers |-> NoRow]
    /\ new_content = [u \in AllUsers |-> NoText]
    /\ outcome = [u \in AllUsers |-> None]
    /\ editor = [u \in AllUsers |-> None]
    /\ current = [u \in AllUsers |-> NoText]
    /\ saves = [i \in Ids |-> 0]
    /\ conflict_on = [u \in AllUsers |-> NoId]
    /\ calls = [u \in AllUsers |-> << >>]
    /\ snap_ver = [u \in AllUsers |-> 0]

\* ---------------------------------------------------------------- adding
\* "Add best practice" button of an empty concept.
ClickAdd(u, c) ==
    /\ pc[u] = "idle"
    /\ ConceptIds(c) = {}
    /\ adding_concept[u] # c
    /\ adding_concept' = [adding_concept EXCEPT ![u] = c]
    /\ outcome' = [outcome EXCEPT ![u] = None]
    /\ ClearWarning(u)
    /\ ForgetConflict(u)
    /\ NoCalls(u)
    /\ UNCHANGED << store, pc, session, confirm_delete, submitting, locals,
                    saves >>

\* Add form submitted: validation, then the run goes on to insert_row.
AddSubmit(u, t) ==
    /\ pc[u] = "idle"
    /\ adding_concept[u] # None
    /\ ConceptIds(adding_concept[u]) = {}
    /\ ~submitting[u]
    /\ IF Strip(t) = <<>>
       THEN /\ outcome' = [outcome EXCEPT ![u] = None]
            /\ ClearWarning(u)
            /\ UNCHANGED << pc, submitting, new_content >>
       ELSE /\ next_id + Cardinality({v \in AllUsers : pc[v] = "insert"}) <= MaxId
            /\ submitting' = [submitting EXCEPT ![u] = TRUE]
            /\ new_content' = [new_content EXCEPT ![u] = t]
            /\ pc' = [pc EXCEPT ![u] = "insert"]
            /\ outcome' = [outcome EXCEPT ![u] = None]
            /\ ClearWarning(u)
    /\ ForgetConflict(u)
    /\ NoCalls(u)
    /\ UNCHANGED << store, session, adding_concept, confirm_delete, row,
                    row_id_int, live, saves >>

\* Variant: an upsert on the concept; a row already stored for the concept
\* takes the new text instead of a second row being inserted.
AddInsert_Upsert(u, now) ==
    /\ pc[u] = "insert"
    /\ IF ConceptIds(adding_concept[u]) = {}
       THEN /\ rows' = [rows EXCEPT ![next_id] =
                           [ category       |-> adding_concept[u],
                             practice       |-> Strip(new_content[u]),
                             added_by       |-> u,
                             added_on       |-> now,
                             last_edited_by |-> "",
                             last_edited_on |-> "",
                             edit_count     |-> 0 ]]
            /\ next_id' = next_id + 1
       ELSE /\ rows' = [i \in Ids |->
                           IF i \in ConceptIds(adding_concept[u])
                           THEN [rows[i] EXCEPT
                                    !.practice = Strip(new_content[u])]
                           ELSE rows[i]]
            /\ next_id' = next_id
    /\ adding_concept' = [adding_concept EXCEPT ![u] = None]
    /\ submitting' = [submitting EXCEPT ![u] = FALSE]
    /\ new_content' = [new_content EXCEPT ![u] = NoText]
    /\ pc' = [pc EXCEPT ![u] = "idle"]
    /\ UNCHANGED conflict_on
    /\ Call(u, "insert_row")
    /\ UNCHANGED << session, confirm_delete, row, row_id_int, live, shown,
                    saves >>

\* insert_row and the rest of the add handler.
AddInsert(u, now) ==
    /\ pc[u] = "insert"
    /\ rows' = [rows EXCEPT ![next_id] =
                    [ category       |-> adding_concept[u],
                      practice       |-> Strip(new_content[u]),
                      added_by       |-> u,
                      added_on       |-> now,
                      last_edited_by |-> "",
                      last_edited_on |-> "",
                      edit_count     |-> 0 ]]
    /\ next_id' = next_id + 1
    /\ adding_concept' = [adding_concept EXCEPT ![u] = None]
    /\ submitting' = [submitting EXCEPT ![u] = FALSE]
    /\ new_content' = [new_content EXCEPT ![u] = NoText]
    /\ pc' = [pc EXCEPT ![u] = "idle"]
    /\ UNCHANGED conflict_on
    /\ Call(u, "insert_row")
    /\ UNCHANGED << session, confirm_delete, row, row_id_int, live, shown,
                    saves >>

\* Cancel button of the add form.
AddCancel(u) ==
    /\ pc[u] = "idle"
    /\ adding_concept[u] # None
    /\ ConceptIds(adding_concept[u]) = {}
    /\ adding_concept' = [adding_concept EXCEPT ![u] = None]
    /\ outcome' = [outcome EXCEPT ![u] = None]
    /\ ClearWarning(u)
    /\ ForgetConflict(u)
    /\ NoCalls(u)
    /\ UNCHANGED << store, pc, session, confirm_delete, submitting, locals,
                    saves >>

\* ------------------------------------------------------------- begin_edit
\* Variant: the snapshot is taken only when none is held.
NeedsSnapshot_OnlyWhenAbsent(u, id) == orig_for_id[u] = NoId

\* Line 361: the snapshot is taken when it is not the one of this row.
NeedsSnapshot(u, id) == orig_for_id[u] # id

\* Variant: the text listed by load_data, without the fetch of line 363.
SnapshotText_Listed(live_now, df_row) == df_row.practice

\* Line 364: the snapshot is the live text, or the df row's when the row
\* is gone.
SnapshotText(live_now, df_row) ==
    IF live_now # NoRow THEN live_now.practice ELSE df_row.practice

\* "Edit my entry" / "Edit this entry": sets editing_id, then st.rerun().
ClickEdit(u, id) ==
    /\ pc[u] = "idle"
    /\ Displayed(id)
    /\ editing_id[u] # id
    /\ is_author(u, id) => confirm_delete[u] # id
    /\ editing_id' = [editing_id EXCEPT ![u] = id]
    /\ pc' = [pc EXCEPT ![u] = "rerun"]
    /\ outcome' = [outcome EXCEPT ![u] = None]
    /\ ClearWarning(u)
    /\ conflict_on' = [conflict_on EXCEPT ![u] =
                          IF outcome[u] = "Conflict" /\ @ = id THEN id ELSE NoId]
    /\ NoCalls(u)
    /\ UNCHANGED << store, orig_text, orig_for_id, adding_concept,
                    confirm_delete, submitting, locals, saves, snap_ver >>

\* The run started by st.rerun(): load_data, then the card of the row being
\* edited.  The form opens at once when the snapshot is this row's already;
\* nothing opens when the row is not shown any more.
Render(u) ==
    /\ pc[u] = "rerun"
    /\ IF Displayed(editing_id[u])
       THEN IF NeedsSnapshot(u, editing_id[u])
            THEN /\ row' = [row EXCEPT ![u] = rows[editing_id[u]]]
                 /\ row_id_int' = [row_id_int EXCEPT ![u] = editing_id[u]]
                 /\ pc' = [pc EXCEPT ![u] = "snap"]
            ELSE /\ pc' = [pc EXCEPT ![u] = "idle"]
                 /\ UNCHANGED << row, row_id_int >>
       ELSE /\ pc' = [pc EXCEPT ![u] = "idle"]
            /\ UNCHANGED << row, row_id_int >>
    /\ UNCHANGED conflict_on
    /\ UNCHANGED calls
    /\ UNCHANGED << store, session, adding_concept, confirm_delete,
                    submitting, live, new_content, shown, saves >>

\* Lines 363-366: fetch_row, store the snapshot and the id it belongs to.
SnapshotFetch(u) ==
    /\ pc[u] = "snap"
    /\ orig_text' = [orig_text EXCEPT ![u] =
                        SnapshotText(fetch_row(row_id_int[u]), row[u])]
    /\ orig_for_id' = [orig_for_id EXCEPT ![u] = row_id_int[u]]
    /\ snap_ver' = [snap_ver EXCEPT ![u] = saves[row_id_int[u]]]
    /\ row' = [row EXCEPT ![u] = NoRow]
    /\ row_id_int' = [row_id_int EXCEPT ![u] = NoId]
    /\ pc' = [pc EXCEPT ![u] = "idle"]
    /\ UNCHANGED conflict_on
    /\ Call(u, "fetch_row")
    /\ UNCHANGED << store, editing_id, adding_concept, confirm_delete,
                    submitting, live, new_content, shown, saves >>

\* The edit form of row id is on the page of user u.
FormShown(u, id) ==
    /\ Displayed(id)
    /\ editing_id[u] = id
    /\ ~NeedsSnapshot(u, id)

\* -------------------------------------------------------------- save_edit
\* Variant: "if not new_content" without strip().
IsEmpty_Raw(text) == text = <<>>

\* Line 385.
IsEmpty(text) == Strip(text) = <<>>

\* Variant: the texts are compared as typed.
IsUnchanged_Raw(text, original_text) == text = original_text

\* Line 387.
IsUnchanged(text, original_text) == Strip(text) = Strip(original_text)

\* Variant: only editing_id is reset, the snapshot keys are not popped.
DropSession_KeepSnapshot(u) ==
    /\ editing_id' = [editing_id EXCEPT ![u] = NoId]
    /\ UNCHANGED << orig_text, orig_for_id, snap_ver >>

\* Lines 388-390, 399-401, 426-428, 444-446: the session is dropped.
DropSession(u) ==
    /\ editing_id' = [editing_id EXCEPT ![u] = NoId]
    /\ orig_text' = [orig_text EXCEPT ![u] = NoText]
    /\ orig_for_id' = [orig_for_id EXCEPT ![u] = NoId]
    /\ snap_ver' = [snap_ver EXCEPT ![u] = 0]

\* "Save Changes": lines 378-393, up to the first store call.
SaveClick(u, t) ==
    /\ pc[u] = "idle"
    /\ FormShown(u, editing_id[u])
    /\ IF IsEmpty(t)
       THEN /\ outcome' = [outcome EXCEPT ![u] = "ValidationError"]
            /\ ClearWarning(u)
            /\ UNCHANGED << pc, session, row_id_int, new_content >>
       ELSE IF IsUnchanged(t, orig_text[u])
       THEN /\ DropSession(u)
            /\ outcome' = [outcome EXCEPT ![u] = "Unchanged"]
            /\ ClearWarning(u)
            /\ UNCHANGED << pc, row_id_int, new_content >>
       ELSE /\ saves[editing_id[u]] < MaxEdits
            /\ row_id_int' = [row_id_int EXCEPT ![u] = editing_id[u]]
            /\ new_content' = [new_content EXCEPT ![u] = t]
            /\ pc' = [pc EXCEPT ![u] = "fetch"]
            /\ outcome' = [outcome EXCEPT ![u] = None]
            /\ ClearWarning(u)
            /\ UNCHANGED session
    /\ NoCalls(u)
    /\ UNCHANGED << store, adding_concept, confirm_delete, submitting, row,
                    live, saves, conflict_on >>

\* Lines 396-402: live = fetch_row(row_id_int).
SaveFetch(u) ==
    /\ pc[u] = "fetch"
    /\ IF fetch_row(row_id_int[u]) = NoRow
       THEN /\ DropSession(u)
            /\ outcome' = [outcome EXCEPT ![u] = "Gone"]
            /\ ClearWarning(u)
            /\ row_id_int' = [row_id_int EXCEPT ![u] = NoId]
            /\ new_content' = [new_content EXCEPT ![u] = NoText]
            /\ pc' = [pc EXCEPT ![u] = "idle"]
            /\ UNCHANGED live
       ELSE /\ live' = [live EXCEPT ![u] = fetch_row(row_id_int[u])]
            /\ pc' = [pc EXCEPT ![u] = "update"]
            /\ UNCHANGED << session, shown, row_id_int, new_content >>
    /\ Call(u, "fetch_row")
    /\ UNCHANGED << store, adding_concept, confirm_delete, submitting, row,
                    saves, conflict_on >>

\* Variant: the editor compares the row it read at line 396 with the
\* snapshot and then writes with update_row.
SaveUpdate_ReadThenWrite(u, now) ==
    /\ pc[u] = "update"
    /\ LET id == row_id_int[u]
           saved == rows[id] # NoRow /\ live[u].practice = Strip(orig_text[u])
       IN  /\ IF saved
              THEN /\ rows' = conditional_update_row(id,
                                  [ practice       |-> Strip(new_content[u]),
                                    last_edited_by |-> u,
                                    last_edited_on |-> now,
                                    edit_count     |-> live[u].edit_count + 1 ])
                   /\ saves' = [saves EXCEPT ![id] = @ + 1]
                   /\ outcome' = [outcome EXCEPT ![u] = "Saved"]
                   /\ ClearWarning(u)
                   /\ row_id_int' = [row_id_int EXCEPT ![u] = NoId]
                   /\ pc' = [pc EXCEPT ![u] = "idle"]
              ELSE /\ pc' = [pc EXCEPT ![u] = "fetch2"]
                   /\ UNCHANGED << rows, saves, shown, row_id_int >>
    /\ DropSession(u)
    /\ live' = [live EXCEPT ![u] = NoRow]
    /\ new_content' = [new_content EXCEPT ![u] = NoText]
    /\ UNCHANGED conflict_on
    /\ Call(u, "conditional_update_row")
    /\ UNCHANGED << next_id, adding_concept, confirm_delete, submitting, row >>

\* Variant: the filter on practice guards the text only; the bookkeeping
\* fields are written to the row whenever the id matches.
SaveUpdate_PartialWrite(u, now) ==
    /\ pc[u] = "update"
    /\ LET id == row_id_int[u]
           saved == CondMatches(id, Strip(orig_text[u]))
       IN  /\ IF saved
              THEN /\ rows' = conditional_update_row(id,
                                  [ practice       |-> Strip(new_content[u]),
                                    last_edited_by |-> u,
                                    last_edited_on |-> now,
                                    edit_count     |-> live[u].edit_count + 1 ])
                   /\ saves' = [saves EXCEPT ![id] = @ + 1]
                   /\ outcome' = [outcome EXCEPT ![u] = "Saved"]
                   /\ ClearWarning(u)
                   /\ row_id_int' = [row_id_int EXCEPT ![u] = NoId]
                   /\ pc' = [pc EXCEPT ![u] = "idle"]
              ELSE /\ rows' = IF rows[id] = NoRow THEN rows
                              ELSE conditional_update_row(id,
                                  [ practice       |-> rows[id].practice,
                                    last_edited_by |-> u,
                                    last_edited_on |-> now,
                                    edit_count     |-> live[u].edit_count + 1 ])
                   /\ pc' = [pc EXCEPT ![u] = "fetch2"]
                   /\ UNCHANGED << saves, shown, row_id_int >>
    /\ DropSession(u)
    /\ live' = [live EXCEPT ![u] = NoRow]
    /\ new_content' = [new_content EXCEPT ![u] = NoText]
    /\ UNCHANGED conflict_on
    /\ Call(u, "conditional_update_row")
    /\ UNCHANGED << next_id, adding_concept, confirm_delete, submitting, row >>

\* Variant: an update that matched nothing is sent again, filtered on the
\* text the row holds now.
SaveUpdate_RetryOnce(u, now) ==
    /\ pc[u] = "update"
    /\ LET id == row_id_int[u]
           saved == CondMatches(id, Strip(orig_text[u]))
           updates == [ practice       |-> Strip(new_content[u]),
                        last_edited_by |-> u,
                        last_edited_on |-> now,
                        edit_count     |-> live[u].edit_count + 1 ]
       IN  /\ IF saved \/ rows[id] # NoRow
              THEN /\ rows' = conditional_update_row(id, updates)
                   /\ saves' = [saves EXCEPT ![id] = @ + 1]
                   /\ outcome' = [outcome EXCEPT ![u] = "Saved"]
                   /\ ClearWarning(u)
                   /\ row_id_int' = [row_id_int EXCEPT ![u] = NoId]
                   /\ pc' = [pc EXCEPT ![u] = "idle"]
              ELSE /\ pc' = [pc EXCEPT ![u] = "fetch2"]
                   /\ UNCHANGED << rows, saves, shown, row_id_int >>
           /\ calls' = [calls EXCEPT ![u] =
                           IF saved
                           THEN Append(@, "conditional_update_row")
                           ELSE @ \o << "conditional_update_row",
                                        "conditional_update_row" >>]
    /\ DropSession(u)
    /\ live' = [live EXCEPT ![u] = NoRow]
    /\ new_content' = [new_content EXCEPT ![u] = NoText]
    /\ UNCHANGED conflict_on
    /\ UNCHANGED << next_id, adding_concept, confirm_delete, submitting, row >>

\* Lines 412-430: the conditional update, then the session is dropped.
SaveUpdate(u, now) ==
    /\ pc[u] = "update"
    /\ LET id == row_id_int[u]
           saved == CondMatches(id, Strip(orig_text[u]))
       IN  /\ IF saved
              THEN /\ rows' = conditional_update_row(id,
                                  [ practice       |-> Strip(new_content[u]),
                                    last_edited_by |-> u,
                                    last_edited_on |-> now,
                                    edit_count     |-> live[u].edit_count + 1 ])
                   /\ saves' = [saves EXCEPT ![id] = @ + 1]
                   /\ outcome' = [outcome EXCEPT ![u] = "Saved"]
                   /\ ClearWarning(u)
                   /\ row_id_int' = [row_id_int EXCEPT ![u] = NoId]
                   /\ pc' = [pc EXCEPT ![u] = "idle"]
              ELSE /\ pc' = [pc EXCEPT ![u] = "fetch2"]
                   /\ UNCHANGED << rows, saves, shown, row_id_int >>
    /\ DropSession(u)
    /\ live' = [live EXCEPT ![u] = NoRow]
    /\ new_content' = [new_content EXCEPT ![u] = NoText]
    /\ UNCHANGED conflict_on
    /\ Call(u, "conditional_update_row")
    /\ UNCHANGED << next_id, adding_concept, confirm_delete, submitting, row >>

\* Line 433: (live2.get("last_edited_by") or "a classmate") if live2
\* else "a classmate".
ConflictEditor(live2) ==
    IF live2 # NoRow /\ live2.last_edited_by # ""
    THEN live2.last_edited_by
    ELSE "a classmate"

\* Variant: the warning quotes no text, as when live2 is None.
ConflictCurrent_Empty(live2) == <<>>

\* Line 434: live2["practice"] if live2 else "".
ConflictCurrent(live2) == IF live2 # NoRow THEN live2.practice ELSE <<>>

\* Lines 432-441: live2 = fetch_row(row_id_int); the warning is shown
\* whether or not the row is still there.
SaveFetch2(u) ==
    /\ pc[u] = "fetch2"
    /\ outcome' = [outcome EXCEPT ![u] = "Conflict"]
    /\ LET live2 == fetch_row(row_id_int[u])
       IN  /\ editor' = [editor EXCEPT ![u] = ConflictEditor(live2)]
           /\ current' = [current EXCEPT ![u] = ConflictCurrent(live2)]
    /\ row_id_int' = [row_id_int EXCEPT ![u] = NoId]
    /\ pc' = [pc EXCEPT ![u] = "idle"]
    /\ conflict_on' = [conflict_on EXCEPT ![u] = row_id_int[u]]
    /\ Call(u, "fetch_row")
    /\ UNCHANGED << store, session, adding_concept, confirm_delete,
                    submitting, row, live, new_content, saves >>

\* Variant: Cancel pops the snapshot keys and leaves editing_id set.
CancelEdit_KeepEditing(u) ==
    /\ pc[u] = "idle"
    /\ FormShown(u, editing_id[u])
    /\ orig_text' = [orig_text EXCEPT ![u] = NoText]
    /\ orig_for_id' = [orig_for_id EXCEPT ![u] = NoId]
    /\ snap_ver' = [snap_ver EXCEPT ![u] = 0]
    /\ outcome' = [outcome EXCEPT ![u] = None]
    /\ ClearWarning(u)
    /\ ForgetConflict(u)
    /\ NoCalls(u)
    /\ UNCHANGED << store, pc, editing_id, adding_concept, confirm_delete,
                    submitting, locals, saves >>

\* ------------------------------------------------------------ cancel_edit
\* Lines 443-447.
CancelEdit(u) ==
    /\ pc[u] = "idle"
    /\ FormShown(u, editing_id[u])
    /\ DropSession(u)
    /\ outcome' = [outcome EXCEPT ![u] = None]
    /\ ClearWarning(u)
    /\ ForgetConflict(u)
    /\ NoCalls(u)
    /\ UNCHANGED << store, pc, adding_concept, confirm_delete, submitting,
                    locals, saves >>

\* ----------------------------------------------------------------- delete
\* The author's buttons are on the page (lines 449-451).
AuthorButtons(u, id) ==
    /\ Displayed(id)
    /\ editing_id[u] # id
    /\ is_author(u, id)

\* "Delete my entry" (lines 470-472).
ClickDelete(u, id) ==
    /\ pc[u] = "idle"
    /\ AuthorButtons(u, id)
    /\ confirm_delete[u] # id
    /\ confirm_delete' = [confirm_delete EXCEPT ![u] = id]
    /\ outcome' = [outcome EXCEPT ![u] = None]
    /\ ClearWarning(u)
    /\ ForgetConflict(u)
    /\ NoCalls(u)
    /\ UNCHANGED << store, pc, session, adding_concept, submitting, locals,
                    saves >>

\* "Yes, delete it" (lines 455-458).  delete_row by id has the same effect
\* whenever it reaches the store, so it is taken with the run's load_data.
ConfirmDelete(u, id) ==
    /\ pc[u] = "idle"
    /\ AuthorButtons(u, id)
    /\ confirm_delete[u] = id
    /\ rows' = delete_row(id)
    /\ saves' = [saves EXCEPT ![id] = 0]
    /\ confirm_delete' = [confirm_delete EXCEPT ![u] = NoId]
    /\ outcome' = [outcome EXCEPT ![u] = None]
    /\ ClearWarning(u)
    /\ ForgetConflict(u)
    /\ calls' = [calls EXCEPT ![u] = << "delete_row" >>]
    /\ UNCHANGED << next_id, pc, session, adding_concept, submitting, locals >>

\* "Cancel" of the delete confirmation (lines 460-462).
CancelDelete(u, id) ==
    /\ pc[u] = "idle"
    /\ AuthorButtons(u, id)
    /\ confirm_delete[u] = id
    /\ confirm_delete' = [confirm_delete EXCEPT ![u] = NoId]
    /\ outcome' = [outcome EXCEPT ![u] = None]
    /\ ClearWarning(u)
    /\ ForgetConflict(u)
    /\ NoCalls(u)
    /\ UNCHANGED << store, pc, session, adding_concept, submitting, locals,
                    saves >>

\* ---------------------------------------------------------- specification
\* The steps of one user that add and delete.
AddStep(u, concepts) ==
    \/ \E c \in concepts : ClickAdd(u, c)
    \/ \E t \in Texts : AddSubmit(u, t)
    \/ \E now \in NowValues : AddInsert(u, now)
    \/ AddCancel(u)

DeleteStep(u) ==
    \/ \E id \in Ids : ClickDelete(u, id)
    \/ \E id \in Ids : ConfirmDelete(u, id)
    \/ \E id \in Ids : CancelDelete(u, id)

\* The steps of begin_edit, save_edit and cancel_edit.
OpenStep(u) ==
    \/ Render(u)
    \/ SnapshotFetch(u)

SaveStep(u, texts) ==
    \/ \E t \in texts : SaveClick(u, t)
    \/ SaveFetch(u)
    \/ \E now \in NowValues : SaveUpdate(u, now)
    \/ SaveFetch2(u)

\* Spec: two users share one concept, from an empty table.
Next ==
    \E u \in Users :
        \/ AddStep(u, SpecConcepts)
        \/ \E id \in Ids : ClickEdit(u, id)
        \/ OpenStep(u)
        \/ SaveStep(u, Texts)
        \/ CancelEdit(u)
        \/ DeleteStep(u)

Spec == Init /\ [][Next]_vars

\* SpecSwitch: two users and one record in each of two concepts; the users
\* edit, save, cancel and delete, and switch between the two records.  The
\* first record is ana's, the second one of either user (the other two
\* cases are these with the users renamed).
InitialRow(concept, text, author) ==
    [ category       |-> concept,
      practice       |-> text,
      added_by       |-> author,
      added_on       |-> "10:00",
      last_edited_by |-> "",
      last_edited_on |-> "",
      edit_count     |-> 0 ]

InitSwitch ==
    /\ \E a2 \in Users :
         rows = [i \in Ids |->
                   IF i = 1 THEN InitialRow("Risk-Free Rate", <<"a">>, "ana")
                   ELSE IF i = 2 THEN InitialRow("Cost of Debt", <<"b">>, a2)
                   ELSE NoRow]
    /\ next_id = 3
    /\ pc = [u \in AllUsers |-> "idle"]
    /\ editing_id = [u \in AllUsers |-> NoId]
    /\ orig_text = [u \in AllUsers |-> NoText]
    /\ orig_for_id = [u \in AllUsers |-> NoId]
    /\ adding_concept = [u \in AllUsers |-> None]
    /\ confirm_delete = [u \in AllUsers |-> NoId]
    /\ submitting = [u \in AllUsers |-> FALSE]
    /\ row = [u \in AllUsers |-> NoRow]
    /\ row_id_int = [u \in AllUsers |-> NoId]
    /\ live = [u \in AllUsers |-> NoRow]
    /\ new_content = [u \in AllUsers |-> NoText]
    /\ outcome = [u \in AllUsers |-> None]
    /\ editor = [u \in AllUsers |-> None]
    /\ current = [u \in AllUsers |-> NoText]
    /\ saves = [i \in Ids |-> 0]
    /\ conflict_on = [u \in AllUsers |-> NoId]
    /\ calls = [u \in AllUsers |-> << >>]
    /\ snap_ver = [u \in AllUsers |-> 0]

NextSwitch ==
    \E u \in Users :
        \/ \E id \in Ids : ClickEdit(u, id)
        \/ OpenStep(u)
        \/ SaveStep(u, Texts)
        \/ CancelEdit(u)
        \/ DeleteStep(u)

SpecSwitch == InitSwitch /\ [][NextSwitch]_vars

\* SpecRace: every user opens one edit session on the same record while it
\* holds its initial text; the saves start once all sessions are open.
InitRace ==
    /\ rows = [i \in Ids |->
                 IF i = 1 THEN InitialRow("Risk-Free Rate", <<"a">>, "ana")
                 ELSE NoRow]
    /\ next_id = 2
    /\ pc = [u \in AllUsers |-> "idle"]
    /\ editing_id = [u \in AllUsers |-> NoId]
    /\ orig_text = [u \in AllUsers |-> NoText]
    /\ orig_for_id = [u \in AllUsers |-> NoId]
    /\ adding_concept = [u \in AllUsers |-> None]
    /\ confirm_delete = [u \in AllUsers |-> NoId]
    /\ submitting = [u \in AllUsers |-> FALSE]
    /\ row = [u \in AllUsers |-> NoRow]
    /\ row_id_int = [u \in AllUsers |-> NoId]
    /\ live = [u \in AllUsers |-> NoRow]
    /\ new_content = [u \in AllUsers |-> NoText]
    /\ outcome = [u \in AllUsers |-> None]
    /\ editor = [u \in AllUsers |-> None]
    /\ current = [u \in AllUsers |-> NoText]
    /\ saves = [i \in Ids |-> 0]
    /\ conflict_on = [u \in AllUsers |-> NoId]
    /\ calls = [u \in AllUsers |-> << >>]
    /\ snap_ver = [u \in AllUsers |-> 0]

\* The user has not opened a session yet.
Fresh(u) == editing_id[u] = NoId /\ outcome[u] = None

\* Every user holds a snapshot, has a save in flight or has finished.
AllOpened ==
    \A v \in AllUsers :
        \/ pc[v] = "idle" /\ orig_for_id[v] = 1
        \/ pc[v] \in {"fetch", "update", "fetch2"}
        \/ outcome[v] \in {"Saved", "Conflict", "Unchanged", "Gone"}

NextRace ==
    \E u \in AllUsers :
        \/ Fresh(u) /\ ClickEdit(u, 1)
        \/ OpenStep(u)
        \/ AllOpened /\ SaveStep(u, RaceTexts)

SpecRace == InitRace /\ [][NextRace]_vars

\* Two users, one record that is never deleted: sessions are opened, saved,
\* cancelled and opened again, with texts that differ between the writers.
NextReopen ==
    \E u \in Users :
        \/ ClickEdit(u, 1)
        \/ OpenStep(u)
        \/ SaveStep(u, RaceTexts)
        \/ CancelEdit(u)

SpecReopen == InitRace /\ [][NextReopen]_vars

\* ------------------------------------------------------------ properties
\* The step of user u that ends a save_edit which reached the store.
SaveEnds(u) == pc[u] \in {"fetch", "update", "fetch2"} /\ pc'[u] = "idle"

\* The step of user u that decides its conditional update.
UpdateDecided(u) == pc[u] = "update" /\ pc'[u] # "update"

\* Every user of SpecRace has finished; Writers are those whose save reached
\* the conditional update.
RaceFinished ==
    \A u \in AllUsers :
        pc[u] = "idle" /\ outcome[u] \in {"Saved", "Conflict", "Unchanged"}

Writers == { u \in AllUsers : outcome[u] \in {"Saved", "Conflict"} }

\* C1: of the sessions opened on the same text, never more than one save
\* returns Saved; once all have saved, exactly one returned Saved, the
\* others Conflict, and the record holds what the one writer stored: it is
\* the only update applied, and it stored that writer's trimmed text.
C1_ExactlyOneSaved ==
    /\ [](Cardinality({ u \in AllUsers : outcome[u] = "Saved" }) <= 1)
    /\ []((RaceFinished /\ Cardinality(Writers) >= 2) =>
            \E w \in Writers :
                /\ outcome[w] = "Saved"
                /\ \A v \in Writers \ {w} : outcome[v] = "Conflict"
                /\ rows[1].last_edited_by = w
                /\ rows[1].edit_count = 1
                /\ saves[1] = 1)
    /\ [][\A u \in AllUsers :
            (UpdateDecided(u) /\ outcome'[u] = "Saved")
                => rows'[1].practice = Strip(new_content[u])]_vars

\* C1 witness: all three users saved changed text from the same snapshot.
C1_Witness ==
    /\ RaceFinished
    /\ Cardinality(Writers) = 3
    /\ rows[1].practice # <<"a">>

\* C2: a save_edit returns Saved only if no other save was applied to the
\* record between the read of its snapshot and its own write, also when
\* the text was changed away from the snapshot and back.
C2_SavedOnlyIfUnmodified ==
    [][\A u \in AllUsers :
          (UpdateDecided(u) /\ outcome'[u] = "Saved")
              => saves[row_id_int[u]] = snap_ver[u]]_vars

\* C3: edit_count of every record equals the number of Saved results on it.
C3_EditCountIsSaved ==
    \A id \in Ids : rows[id] # NoRow => rows[id].edit_count = saves[id]

\* C4: a save_edit that ends when its record has been deleted returns Gone
\* and leaves the store as it is.
C4_DeletedGivesGone ==
    [][\A u \in AllUsers :
          (SaveEnds(u) /\ rows[row_id_int[u]] = NoRow)
              => (outcome'[u] = "Gone" /\ rows' = rows)]_vars

\* C5: the conditional update changes the record only where its stored text
\* equals the trimmed snapshot at that instant, and Saved or not is decided
\* by that comparison alone, whatever the editor read before.
C5_AtomicConditionalUpdate ==
    [][\A u \in AllUsers :
          UpdateDecided(u) =>
              LET id == row_id_int[u]
                  match == /\ rows[id] # NoRow
                           /\ rows[id].practice = Strip(orig_text[u])
              IN  /\ match <=> outcome'[u] = "Saved"
                  /\ match <=> rows' # rows
                  /\ ~match => pc'[u] = "fetch2"]_vars

\* C5 witness: a conditional update was refused on a row that is there,
\* after another user's update was applied.
C5_Witness ==
    \E u \in Users, v \in Users :
        /\ pc[u] = "fetch2"
        /\ rows[row_id_int[u]] # NoRow
        /\ outcome[v] = "Saved"
        /\ rows[row_id_int[u]].last_edited_by = v

\* C6: begin_edit whose snapshot read finds no record reports NotFound and
\* opens no session.
C6_MissingRecordOpensNoSession ==
    [][\A u \in AllUsers :
          (pc[u] = "snap" /\ pc'[u] # "snap" /\ rows[row_id_int[u]] = NoRow)
              => /\ outcome'[u] = "NotFound"
                 /\ orig_for_id'[u] = NoId
                 /\ orig_text'[u] = NoText
                 /\ editing_id'[u] = NoId]_vars

\* The step of user u that puts the edit form of a record on the page.
FormOpens(u) ==
    /\ pc[u] \in {"rerun", "snap"}
    /\ pc'[u] = "idle"
    /\ editing_id'[u] \in Ids
    /\ rows'[editing_id'[u]] # NoRow
    /\ orig_for_id'[u] = editing_id'[u]

\* C7: when an edit session opens on a record, its snapshot is the text
\* stored for the record at that moment.
C7_SnapshotIsStoredText ==
    [][\A u \in AllUsers :
          FormOpens(u) => orig_text'[u] = rows'[editing_id'[u]].practice]_vars

\* C8: the snapshot a save uses as expected value is the one taken for the
\* record it saves, and the form of a record is never shown with the
\* snapshot of another one.
C8_SnapshotBelongsToRecord ==
    \A u \in AllUsers :
        /\ pc[u] \in {"fetch", "update"} =>
              orig_for_id[u] = row_id_int[u] /\ orig_text[u] # NoText
        /\ (pc[u] = "idle" /\ Displayed(editing_id[u])) =>
              orig_for_id[u] = editing_id[u] /\ orig_text[u] # NoText

\* C8 witness: the user has switched to another record while holding the
\* snapshot of the first one, whose text differs.
C8_Witness ==
    \E u \in Users :
        /\ pc[u] = "snap"
        /\ orig_for_id[u] \in Ids \ {row_id_int[u]}
        /\ rows[row_id_int[u]] # NoRow
        /\ orig_text[u] # rows[row_id_int[u]].practice

\* C9: a save whose trimmed text equals the trimmed snapshot returns
\* Unchanged, ends the run and leaves every record as it is.
C9_UnchangedWritesNothing ==
    [][\A u \in AllUsers : \A t \in Texts \cup RaceTexts :
          (SaveClick(u, t) /\ Strip(t) # <<>> /\ Strip(t) = Strip(orig_text[u]))
              => /\ outcome'[u] = "Unchanged"
                 /\ pc'[u] = "idle"
                 /\ rows' = rows]_vars

\* C9 witness: Unchanged was returned on a record another user has edited.
C9_Witness ==
    \E u \in Users, id \in Ids :
        /\ outcome[u] = "Unchanged"
        /\ rows[id] # NoRow
        /\ rows[id].edit_count = 1
        /\ rows[id].last_edited_by \notin {"", u}

\* C10: a save with empty or blank text returns ValidationError, ends the
\* run without a store call and keeps the session: same record, same
\* snapshot, form still open.
C10_BlankKeepsSession ==
    [][\A u \in AllUsers : \A t \in Texts \cup RaceTexts :
          (SaveClick(u, t) /\ Strip(t) = <<>>)
              => /\ outcome'[u] = "ValidationError"
                 /\ pc'[u] = "idle"
                 /\ rows' = rows
                 /\ editing_id'[u] = editing_id[u]
                 /\ orig_for_id'[u] = orig_for_id[u]
                 /\ orig_text'[u] = orig_text[u]
                 /\ orig_for_id'[u] = editing_id'[u]]_vars

\* C10 witness: ValidationError was returned and the session is still open
\* on its record, with its snapshot.
C10_Witness ==
    \E u \in Users :
        /\ outcome[u] = "ValidationError"
        /\ editing_id[u] # NoId
        /\ orig_for_id[u] = editing_id[u]
        /\ orig_text[u] # NoText
        /\ rows[editing_id[u]] # NoRow

\* The conflict warning ends the run of u.
ConflictShown(u) == pc[u] = "fetch2" /\ pc'[u] = "idle"

\* C11: two users hold a session on the same record with the same snapshot.
\* The save that reaches the store first is Saved: the row gets the writer's
\* trimmed text, the writer's name and edit_count + 1.  The other user's
\* save, made after that one Saved, matches nothing and leaves the row as
\* it is; its warning quotes the row's text and last editor, i.e. the first
\* writer's, and the row (edit_count included) stays.  A session opened
\* after a save takes the row's text as snapshot, and a save from a snapshot
\* that is still current is Saved like any other.
C11_SequentialWriters ==
    [][\A A \in Users : \A B \in Users \ {A} :
          /\ (UpdateDecided(A) /\ saves[1] = snap_ver[A])
                => /\ outcome'[A] = "Saved"
                   /\ rows'[1].practice = Strip(new_content[A])
                   /\ rows'[1].last_edited_by = A
                   /\ rows'[1].edit_count = rows[1].edit_count + 1
          /\ (UpdateDecided(B) /\ saves[1] = snap_ver[B] + 1)
                => /\ pc'[B] = "fetch2"
                   /\ rows' = rows
          /\ ConflictShown(B)
                => /\ outcome'[B] = "Conflict"
                   /\ current'[B] = rows[1].practice
                   /\ editor'[B] = rows[1].last_edited_by
                   /\ outcome[A] = "Saved" => editor'[B] = A
                   /\ rows' = rows
          /\ (pc[B] = "snap" /\ pc'[B] = "idle")
                => /\ orig_text'[B] = rows[1].practice
                   /\ snap_ver'[B] = saves[1]
      ]_vars

\* ana saved <<"b">> on the untouched record; ben's later save from the
\* snapshot <<"a">> was answered with ana's text and name.
C11_Witness ==
    /\ outcome["ana"] = "Saved"
    /\ outcome["ben"] = "Conflict"
    /\ rows[1].practice = <<"b">>
    /\ rows[1].last_edited_by = "ana"
    /\ rows[1].edit_count = 1
    /\ current["ben"] = <<"b">>
    /\ editor["ben"] = "ana"

\* No record is being edited and no snapshot is kept.
NoSession(u) ==
    /\ editing_id[u] = NoId
    /\ orig_text[u] = NoText
    /\ orig_for_id[u] = NoId

\* C12: once a save has answered Saved, Conflict, Gone or Unchanged, and
\* once Cancel was pressed, the user has no session: editing_id is None and
\* both snapshot keys are gone.  The next Edit click on any record then
\* leads through fetch_row, and the form opens on the text read there.
C12_SessionEndsWithOutcome ==
    /\ [](\A u \in Users :
            outcome[u] \in {"Saved", "Conflict", "Gone", "Unchanged"}
                => NoSession(u))
    /\ [][\A u \in Users :
            /\ CancelEdit(u)
                  => /\ editing_id'[u] = NoId
                     /\ orig_text'[u] = NoText
                     /\ orig_for_id'[u] = NoId
            /\ \A id \in Ids :
                  (ClickEdit(u, id) /\ NoSession(u))
                      => /\ pc'[u] = "rerun"
                         /\ editing_id'[u] = id
                         /\ orig_for_id'[u] = NoId
            /\ (/\ pc[u] = "rerun" /\ pc'[u] # "rerun"
                /\ orig_for_id[u] = NoId
                /\ Displayed(editing_id[u]))
                  => /\ pc'[u] = "snap"
                     /\ row_id_int'[u] = editing_id[u]
            /\ (/\ pc[u] = "snap" /\ pc'[u] = "idle"
                /\ rows[row_id_int[u]] # NoRow)
                  => /\ orig_for_id'[u] = row_id_int[u]
                     /\ orig_text'[u] = rows[row_id_int[u]].practice
      ]_vars

\* ben saved record 1 and opened it again: the form holds the saved text,
\* not the text of ben's first session.
C12_Witness ==
    /\ pc["ben"] = "idle"
    /\ editing_id["ben"] = 1
    /\ orig_for_id["ben"] = 1
    /\ rows[1] # NoRow
    /\ rows[1].last_edited_by = "ben"
    /\ rows[1].practice = <<"b">>
    /\ orig_text["ben"] = <<"b">>

\* C13: wherever the edit form is on the page Cancel can be pressed, and
\* the press leaves the user without a session in the same step: no store
\* call is pending, the table and every other user's session are as
\* before.  After it there is no form, hence no second Cancel that could
\* change anything: pressing twice ends in the state of pressing once.
C13_CancelOnlyDropsSession ==
    /\ [](\A u \in Users :
            /\ (pc[u] = "idle" /\ FormShown(u, editing_id[u]))
                  => ENABLED CancelEdit(u)
            /\ NoSession(u) => ~ ENABLED CancelEdit(u))
    /\ [][\A u \in Users :
            CancelEdit(u)
                => /\ editing_id'[u] = NoId
                   /\ orig_text'[u] = NoText
                   /\ orig_for_id'[u] = NoId
                   /\ pc'[u] = "idle"
                   /\ rows' = rows
                   /\ next_id' = next_id
                   /\ \A v \in Users \ {u} :
                         /\ editing_id'[v] = editing_id[v]
                         /\ orig_text'[v] = orig_text[v]
                         /\ orig_for_id'[v] = orig_for_id[v]
                         /\ pc'[v] = pc[v]
      ]_vars

\* ben saved the record, opened it again and cancelled: of the steps of
\* SpecReopen only Cancel leaves a user who acted without session and
\* without message.
C13_Witness ==
    /\ pc["ben"] = "idle"
    /\ NoSession("ben")
    /\ outcome["ben"] = None
    /\ rows[1].last_edited_by = "ben"
    /\ editing_id["ana"] = 1
    /\ orig_text["ana"] # rows[1].practice

\* C14: with every conflict warning the row exists, the text quoted is the
\* row's stored, non-empty text and the editor named is the row's stored
\* last_edited_by, both as read after the update that matched nothing.
C14_ConflictReportsStored ==
    [][\A u \in Users :
          ConflictShown(u)
              => /\ outcome'[u] = "Conflict"
                 /\ rows[row_id_int[u]] # NoRow
                 /\ current'[u] = rows[row_id_int[u]].practice
                 /\ current'[u] # <<>>
                 /\ editor'[u] = rows[row_id_int[u]].last_edited_by
      ]_vars

\* C15: no store step of a save that ends in Conflict or Gone changes the
\* table: every step a user's save takes, other than the update that is
\* Saved, leaves every field of every row as it was, and a save that ends
\* without Saved ends in Conflict or Gone.
C15_FailedSaveWritesNothing ==
    [][\A u \in Users :
          (/\ pc[u] \in {"fetch", "update", "fetch2"}
           /\ pc'[u] # pc[u]
           /\ outcome'[u] # "Saved")
              => /\ rows' = rows
                 /\ next_id' = next_id
                 /\ pc'[u] = "idle" => outcome'[u] \in {"Conflict", "Gone"}
      ]_vars

\* ana's save ended in Conflict and the row is exactly what ben's save and
\* nobody else made of it.
C15_Witness ==
    /\ outcome["ana"] = "Conflict"
    /\ pc["ana"] = "idle"
    /\ rows[1] = [ category       |-> "Risk-Free Rate",
                   practice       |-> <<"b">>,
                   added_by       |-> "ana",
                   added_on       |-> "10:00",
                   last_edited_by |-> "ben",
                   last_edited_on |-> "10:00",
                   edit_count     |-> 1 ]

\* C16: the step that is Saved leaves the row with the trimmed text the
\* user submitted, the user's name as last_edited_by, the time of the save
\* as last_edited_on and the edit_count the handler computed, all four
\* written by that one step.
C16_SavedWritesAllFields ==
    [][\A u \in Users :
          (UpdateDecided(u) /\ outcome'[u] = "Saved")
              => LET id == row_id_int[u]
                 IN  /\ rows'[id].practice = Strip(new_content[u])
                     /\ rows'[id].last_edited_by = u
                     /\ rows'[id].last_edited_on \in NowValues
                     /\ rows'[id].edit_count = live[u].edit_count + 1
                     /\ rows'[id].edit_count > 0
      ]_vars

\* ben's save of ana's record has just been answered Saved.
C16_Witness ==
    /\ outcome["ben"] = "Saved"
    /\ rows[1] # NoRow
    /\ rows[1].added_by = "ana"
    /\ rows[1].practice = <<"b">>
    /\ rows[1].last_edited_by = "ben"
    /\ rows[1].last_edited_on = "10:00"
    /\ rows[1].edit_count = 1

\* C17: every row of the table has a text that is not empty and not blank.
\* A blank text submitted with the add form or with the edit form is turned
\* away in the step of the submission, with no store call pending and the
\* table as before.
C17_StoredTextNonEmpty ==
    /\ [](\A id \in Ids :
            rows[id] # NoRow => /\ rows[id].practice # <<>>
                                /\ Strip(rows[id].practice) # <<>>)
    /\ [][\A u \in Users : \A t \in Texts :
            ((AddSubmit(u, t) \/ SaveClick(u, t)) /\ Strip(t) = <<>>)
                => /\ pc'[u] = "idle"
                   /\ rows' = rows
                   /\ next_id' = next_id
      ]_vars

\* Two rows were added and one was saved over, while a blank save of ben
\* has just been turned away.
C17_Witness ==
    /\ rows[1] # NoRow
    /\ rows[2] # NoRow
    /\ rows[1].edit_count = 1
    /\ rows[1].practice = <<"b">>
    /\ rows[2].practice = <<"a">>
    /\ outcome["ben"] = "ValidationError"

\* The fields of a row that only a save may write.
EditedFields(r) == << r.practice, r.edit_count, r.last_edited_by >>

\* C18: the text, edit_count and last_edited_by of a row that stays in the
\* table change on no step but the conditional update of a save on that row
\* that is Saved: not when a form is opened or cancelled, not when another
\* row is inserted or deleted, not on a save ending otherwise.
C18_OnlySavedWritesFields ==
    [][\A id \in Ids :
          (/\ rows[id] # NoRow
           /\ rows'[id] # NoRow
           /\ EditedFields(rows'[id]) # EditedFields(rows[id]))
              => \E u \in Users :
                    /\ UpdateDecided(u)
                    /\ row_id_int[u] = id
                    /\ outcome'[u] = "Saved"
      ]_vars

\* Row 2 was inserted next to row 1, outlived the delete of row 1 and an
\* edit session ended as Unchanged, and is as inserted.
C18_Witness ==
    /\ rows[1] = NoRow
    /\ rows[2] # NoRow
    /\ EditedFields(rows[2]) = << <<"b">>, 0, "" >>
    /\ \E u \in Users : outcome[u] = "Unchanged"

\* C19: a row keeps its id, added_by and added_on (and its concept) on
\* every step from insert to delete, whoever saves on it: they are the
\* inserting user's name and the time of the insert, and no save moves the
\* row to another id.
C19_CreationFieldsImmutable ==
    [][\A id \in Ids :
          /\ (rows[id] # NoRow /\ rows'[id] # NoRow)
                => /\ rows'[id].added_by = rows[id].added_by
                   /\ rows'[id].added_on = rows[id].added_on
                   /\ rows'[id].category = rows[id].category
          /\ (rows[id] = NoRow /\ rows'[id] # NoRow)
                => \E u \in Users :
                      /\ pc[u] = "insert"
                      /\ pc'[u] = "idle"
                      /\ id = next_id
                      /\ rows'[id].added_by = u
                      /\ rows'[id].added_on \in NowValues
          /\ \A u \in Users :
                (UpdateDecided(u) /\ outcome'[u] = "Saved")
                    => \A j \in Ids \ {row_id_int[u]} : rows'[j] = rows[j]
      ]_vars

\* ana's row after two saves, the last one by ben.
C19_Witness ==
    /\ rows[1] # NoRow
    /\ rows[1].added_by = "ana"
    /\ rows[1].added_on = "10:00"
    /\ rows[1].edit_count = 2
    /\ rows[1].last_edited_by = "ben"
    /\ saves[1] = 2

\* C20: a user whose save ended in Conflict clicks Edit on that record
\* again and saves.  The snapshot of the new session is the row's text as
\* fetched; a text that is valid and differs from it is taken on to the
\* store; and when the row is still there and nobody has saved on it since
\* that snapshot, the conditional update matches: Saved, with the user's
\* trimmed text in the row.
C20_RetryAfterConflictSaved ==
    [][\A u \in Users :
          LET id == conflict_on[u]
          IN  /\ (/\ pc[u] = "snap" /\ pc'[u] = "idle"
                  /\ row_id_int[u] = id
                  /\ rows[id] # NoRow)
                    => /\ orig_text'[u] = rows[id].practice
                       /\ orig_for_id'[u] = id
              /\ \A t \in Texts :
                    (/\ SaveClick(u, t)
                     /\ editing_id[u] = id
                     /\ rows[id] # NoRow
                     /\ saves[id] = snap_ver[u]
                     /\ Strip(t) # <<>>
                     /\ Strip(t) # rows[id].practice)
                        => /\ pc'[u] = "fetch"
                           /\ new_content'[u] = t
              /\ (/\ pc[u] = "fetch" /\ pc'[u] # "fetch"
                  /\ row_id_int[u] = id
                  /\ rows[id] # NoRow)
                    => pc'[u] = "update"
              /\ (/\ UpdateDecided(u)
                  /\ row_id_int[u] = id
                  /\ rows[id] # NoRow
                  /\ saves[id] = snap_ver[u])
                    => /\ outcome'[u] = "Saved"
                       /\ rows'[id].practice = Strip(new_content[u])
                       /\ rows'[id].last_edited_by = u
      ]_vars

\* ben's save on ana's record ended in Conflict; ben opened the record
\* again and that save was Saved.
C20_Witness ==
    /\ conflict_on["ben"] = 1
    /\ outcome["ben"] = "Saved"
    /\ pc["ben"] = "idle"
    /\ rows[1] # NoRow
    /\ rows[1].added_by = "ana"
    /\ rows[1].last_edited_by = "ben"
    /\ rows[1].practice = <<"a">>
    /\ saves[1] = 2

\* How often the runs of u since the last click called the store function f.
CallCount(u, f) == Cardinality({ i \in 1..Len(calls[u]) : calls[u][i] = f })

\* C21: a save calls conditional_update_row at most once.  When the update
\* matched nothing the run goes on to the warning and ends: it writes
\* nothing on the way, and the text left in the row (if the row is still
\* there) is the one another user's save stored, which the warning quotes.
C21_OneConditionalUpdate ==
    /\ [](\A u \in Users : CallCount(u, "conditional_update_row") <= 1)
    /\ [][\A u \in Users :
            /\ (/\ pc[u] \in {"update", "fetch2"}
                /\ pc'[u] # pc[u]
                /\ outcome'[u] # "Saved")
                  => /\ rows' = rows
                     /\ pc'[u] \in {"fetch2", "idle"}
            /\ ConflictShown(u)
                  => /\ outcome'[u] = "Conflict"
                     /\ CallCount(u, "conditional_update_row") = 1
                     /\ calls'[u] = Append(calls[u], "fetch_row")
                     /\ rows[row_id_int[u]] # NoRow
                           => /\ rows[row_id_int[u]].last_edited_by
                                    \in AllUsers \ {u}
                              /\ current'[u] = rows[row_id_int[u]].practice
      ]_vars

\* ben was warned of a conflict after one update that matched nothing; the
\* row holds what ana's save stored.
C21_Witness ==
    /\ outcome["ben"] = "Conflict"
    /\ calls["ben"] = << "fetch_row", "conditional_update_row", "fetch_row" >>
    /\ rows[1] # NoRow
    /\ rows[1].last_edited_by = "ana"
    /\ rows[1].practice = <<"b">>
    /\ current["ben"] = <<"b">>
    /\ saves[1] = 1

\* The run that opens the form of u ends.
OpenEnds(u) == pc[u] = "snap" /\ pc'[u] = "idle"

\* C22: when the opening of a form or a save that went to the store ends,
\* its runs have called the store (fetch_row, conditional_update_row) at
\* least once and at most twice, whatever the outcome.
C22_OneOrTwoRoundTrips ==
    [][\A u \in Users :
          (OpenEnds(u) \/ SaveEnds(u))
              => /\ Len(calls'[u]) >= 1
                 /\ Len(calls'[u]) <= 2
      ]_vars

\* A text without blanks at either end.
Trimmed(text) ==
    text # <<>> => (text[1] # " " /\ text[Len(text)] # " ")

\* C23: the text of every row has no blank at its start or end, hence is
\* its own trimmed form; and while nobody has saved on a row since a
\* user's snapshot of it, the trimmed snapshot, which is what the
\* conditional update is filtered on, is the row's text.
C23_StoredTextTrimmed ==
    /\ \A id \in Ids :
          rows[id] # NoRow => /\ Trimmed(rows[id].practice)
                              /\ Strip(rows[id].practice) = rows[id].practice
    /\ \A u \in Users : \A id \in Ids :
          (/\ rows[id] # NoRow
           /\ orig_for_id[u] = id
           /\ editing_id[u] = id
           /\ saves[id] = snap_ver[u])
              => Strip(orig_text[u]) = rows[id].practice

\* A padded text was saved: the row holds it trimmed, and the snapshot ana
\* took afterwards is that text.
C23_Witness ==
    /\ rows[1] # NoRow
    /\ rows[1].practice = <<"b">>
    /\ rows[1].edit_count = 1
    /\ rows[1].last_edited_by = "ben"
    /\ pc["ana"] = "idle"
    /\ editing_id["ana"] = 1
    /\ orig_for_id["ana"] = 1
    /\ orig_text["ana"] = <<"b">>
    /\ snap_ver["ana"] = saves[1]

\* C24: for every row, last_edited_by is empty exactly when edit_count is
\* 0, and so is last_edited_on.
C24_EditorEmptyIffNeverEdited ==
    \A id \in Ids :
        rows[id] # NoRow
            => /\ rows[id].last_edited_by = "" <=> rows[id].edit_count = 0
               /\ rows[id].last_edited_on = "" <=> rows[id].edit_count = 0
               /\ rows[id].last_edited_by # ""
                     => rows[id].last_edited_by \in Users

\* A row saved twice next to a row that was only inserted.
C24_Witness ==
    /\ rows[1] # NoRow
    /\ rows[2] # NoRow
    /\ rows[1].edit_count = 2
    /\ rows[1].last_edited_by = "ben"
    /\ rows[1].last_edited_on = "10:00"
    /\ rows[2].edit_count = 0
    /\ rows[2].last_edited_by = ""
    /\ rows[2].last_edited_on = ""

\* C25: the table never holds more than one row for a concept (all users of
\* the model are in the same class), also when two users submit the add
\* form of a concept both found empty.
C25_OneRowPerConcept ==
    \A c \in CONCEPTS : Cardinality(ConceptIds(c)) <= 1

====
